---- MODULE Spec2Model ----
(***************************************************************************)
(* Model of static/js/script.js: the quiz form handler generateQuiz, the   *)
(* two renderers displayQuiz and displayError, and the page they write to. *)
(*                                                                         *)
(* A JavaScript string that the code takes apart (the topics field, the    *)
(* num_questions field) is a sequence of one-character strings; a string   *)
(* the code only tests for emptiness or copies is a TLA+ string.           *)
(*                                                                         *)
(* generateQuiz is an async function. It runs without interruption up to   *)
(* `await fetch(...)`, again up to `await response.json()`, and then to    *)
(* its end, so each activation is at most three atomic steps; the steps of *)
(* different activations interleave freely.                                *)
(***************************************************************************)
EXTENDS Integers, Sequences, FiniteSets, TLC

\* Number of times the button is activated in a run.
MaxInv == 2
\* Longest questions list a response carries.
MaxQuestions == 2

Invocations == 1..MaxInv

-----------------------------------------------------------------------------
(* Strings and numbers, as the JavaScript engine computes them.             *)

IsSpace(c) == c = " "

\* String.prototype.trim
RECURSIVE TrimLeft(_)
TrimLeft(s) ==
    IF s # <<>> /\ IsSpace(Head(s)) THEN TrimLeft(Tail(s)) ELSE s

RECURSIVE TrimRight(_)
TrimRight(s) ==
    IF s # <<>> /\ IsSpace(s[Len(s)]) THEN TrimRight(SubSeq(s, 1, Len(s) - 1)) ELSE s

Trim(s) == TrimRight(TrimLeft(s))

\* String.prototype.split(','): "" gives [""], never the empty list.
RECURSIVE Split(_)
Split(s) ==
    IF s = <<>> THEN << <<>> >>
    ELSE LET rest == Split(Tail(s))
         IN  IF Head(s) = ","
             THEN << <<>> >> \o rest
             ELSE << <<Head(s)>> \o rest[1] >> \o Tail(rest)

\* value.split(',').map(t => t.trim())
SplitTopics(value) ==
    LET parts == Split(value) IN [k \in 1..Len(parts) |-> Trim(parts[k])]

Digits == {"0", "1", "2", "3", "4", "5", "6", "7", "8", "9"}

DigitVal(c) ==
    CASE c = "0" -> 0 [] c = "1" -> 1 [] c = "2" -> 2 [] c = "3" -> 3
      [] c = "4" -> 4 [] c = "5" -> 5 [] c = "6" -> 6 [] c = "7" -> 7
      [] c = "8" -> 8 [] c = "9" -> 9

AllDigits(s) == \A k \in 1..Len(s) : s[k] \in Digits

RECURSIVE DigitsVal(_)
DigitsVal(s) ==
    IF s = <<>> THEN 0 ELSE 10 * DigitsVal(SubSeq(s, 1, Len(s) - 1)) + DigitVal(s[Len(s)])

RECURSIVE Pow10(_)
Pow10(k) == IF k = 0 THEN 1 ELSE 10 * Pow10(k - 1)

\* A JavaScript number: NaN, or the rational n / d with d a power of ten.
NaN == [nan |-> TRUE, n |-> 0, d |-> 1]
Num(n, d) == [nan |-> FALSE, n |-> n, d |-> d]

RECURSIVE Reduce(_)
Reduce(x) ==
    IF ~x.nan /\ x.d > 1 /\ x.n % 10 = 0 THEN Reduce(Num(x.n \div 10, x.d \div 10)) ELSE x

\* An unsigned decimal literal: digits, digits '.' digits?, '.' digits.
UnsignedToNumber(s) ==
    LET dots == {k \in 1..Len(s) : s[k] = "."}
    IN  IF dots = {}
        THEN IF s # <<>> /\ AllDigits(s) THEN Num(DigitsVal(s), 1) ELSE NaN
        ELSE IF Cardinality(dots) > 1 THEN NaN
        ELSE LET p    == CHOOSE k \in dots : TRUE
                 int  == SubSeq(s, 1, p - 1)
                 frac == SubSeq(s, p + 1, Len(s))
             IN  IF AllDigits(int) /\ AllDigits(frac) /\ Len(int) + Len(frac) > 0
                 THEN Reduce(Num(DigitsVal(int \o frac), Pow10(Len(frac))))
                 ELSE NaN

\* ToNumber applied to a string (the coercion of `numQuestions < 1` and of
\* Number(numQuestions)): whitespace is trimmed, the empty string is 0, a signed
\* decimal literal is its value and anything else is NaN. Exponents, Infinity and
\* the 0x/0o/0b literals are not modelled; no input of the model uses them.
ToNumber(s) ==
    LET t == Trim(s)
    IN  IF t = <<>> THEN Num(0, 1)
        ELSE IF Head(t) = "-"
             THEN LET u == UnsignedToNumber(Tail(t))
                  IN  IF u.nan THEN NaN ELSE Num(-u.n, u.d)
        ELSE IF Head(t) = "+" THEN UnsignedToNumber(Tail(t))
        ELSE UnsignedToNumber(t)

\* x < k and x > k on numbers: every comparison with NaN is false.
LessThan(x, k) == ~x.nan /\ x.n < k * x.d
GreaterThan(x, k) == ~x.nan /\ x.n > k * x.d

\* JSON.stringify of a number: NaN is written as null.
JsonNumber(x) == IF x.nan THEN [null |-> TRUE, n |-> 0, d |-> 1]
                 ELSE [null |-> FALSE, n |-> x.n, d |-> x.d]

-----------------------------------------------------------------------------
(* The inputs.                                                              *)

\* Values of the topics field: "", " ,", "a,b", " a ", "a,,b".
TopicsInputs ==
    { <<>>, <<" ", ",">>, <<"a", ",", "b">>, <<" ", "a", " ">>, <<"a", ",", ",", "b">> }

\* Values of the num_questions field: "", "0", "1", "3", "20", "21", "-1", "abc",
\* "1.5".
NumInputs ==
    { <<>>, <<"0">>, <<"1">>, <<"3">>, <<"2", "0">>, <<"2", "1">>, <<"-", "1">>,
      <<"a", "b", "c">>, <<"1", ".", "5">> }

AllForms ==
    [topics : TopicsInputs, q_type : {"", "mcq"}, difficulty : {"", "easy"},
     num_questions : NumInputs]

\* The form filled in correctly: topics "a,b", type mcq, difficulty easy, 3 questions.
BaseForm ==
    [topics |-> <<"a", ",", "b">>, q_type |-> "mcq", difficulty |-> "easy",
     num_questions |-> <<"3">>]

\* The forms submitted: the correct one, each field of it changed alone, and
\* the form left blank.
Forms ==
    {f \in AllForms :
        \/ Cardinality({k \in DOMAIN f : f[k] # BaseForm[k]}) <= 1
        \/ f = [topics |-> <<>>, q_type |-> "", difficulty |-> "", num_questions |-> <<>>]}

\* The form of a step that reads no form.
NoForm == [topics |-> <<>>, q_type |-> "", difficulty |-> "", num_questions |-> <<>>]

\* A question of a response: a plain string, or an object carrying text.
StringQuestion(s) == [kind |-> "string", text |-> s]
ObjectQuestion(s) == [kind |-> "object", text |-> s]

\* The questions the backend draws from: "Q1 text", {text: "Q2 text"}, {text: ""}.
QuestionPool == <<StringQuestion("Q1 text"), ObjectQuestion("Q2 text"), ObjectQuestion("")>>

\* The elements of pool at the positions in keep, in order.
RECURSIVE Pick(_, _)
Pick(pool, keep) ==
    IF pool = <<>> THEN <<>>
    ELSE LET rest == Pick(Tail(pool), {k - 1 : k \in keep \ {1}})
         IN  IF 1 \in keep THEN <<Head(pool)>> \o rest ELSE rest

\* The questions lists of the responses: up to MaxQuestions of the pool.
QuestionLists ==
    {Pick(QuestionPool, keep) :
        keep \in {K \in SUBSET (1..Len(QuestionPool)) : Cardinality(K) <= MaxQuestions}}

\* A parsed response body: a JSON object with an optional error field and an
\* optional questions field.
Body(hasError, error, hasQuestions, questions) ==
    [hasError |-> hasError, error |-> error,
     hasQuestions |-> hasQuestions, questions |-> questions]

Bodies ==
    {Body(FALSE, "", FALSE, <<>>), Body(TRUE, "", FALSE, <<>>),
     Body(TRUE, "backend down", FALSE, <<>>)}
    \cup {Body(FALSE, "", TRUE, qs) : qs \in QuestionLists}

NoBody == Body(FALSE, "", FALSE, <<>>)

\* error.message of the rejection of fetch() and of response.json(); the texts
\* are the engine's.
FetchErrorMessage == "Failed to fetch"
JsonErrorMessage == "Unexpected token in JSON"

-----------------------------------------------------------------------------
(* The page and the activations.                                            *)

VARIABLES
    inv,            \* per activation: where generateQuiz is, and response.ok
    quizContainer,  \* the elements making up quizContainer.innerHTML
    errorNodes,     \* text of the elements with id errorContainer, in document order
    last,           \* the step run most recently: its form and its calls, in order
    lastSettled     \* the activation whose request settled most recently

vars == <<inv, quizContainer, errorNodes, last, lastSettled>>

LoadingHTML == << [tag |-> "p", h3 |-> 0, p |-> "Loading quiz..."] >>

\* The i-th block displayQuiz writes; h3 |-> i stands for the heading "Qi:".
QuestionBlock(i, text) == [tag |-> "div.question", h3 |-> i, p |-> text]

\* `${q.text || q}`: the text when it is truthy, else the question itself
\* converted to a string.
QuestionText(q) ==
    IF q.kind = "object"
    THEN IF q.text # "" THEN q.text ELSE "[object Object]"
    ELSE q.text

\* displayQuiz with `innerHTML +=` in place of `innerHTML =`.
DisplayQuizAppends(questions) ==
    quizContainer \o
        [i \in 1..Len(questions) |-> QuestionBlock(i, QuestionText(questions[i]))]

\* displayQuiz: the new innerHTML of quizContainer.
DisplayQuiz(questions) ==
    [i \in 1..Len(questions) |-> QuestionBlock(i, QuestionText(questions[i]))]

\* displayError without the lookup by id: a new element on every call.
DisplayErrorAlwaysCreates(nodes, message) == <<message>> \o nodes

\* displayError: the element found by id (the first in document order) is
\* reused, else one is created and prepended to the body; its textContent is
\* set to the message.
DisplayError(nodes, message) ==
    IF nodes # <<>> THEN [nodes EXCEPT ![1] = message] ELSE <<message>> \o nodes

Effect(fn, arg) == [fn |-> fn, arg |-> arg]

\* What a step leaves in `last`: the activation, the step, the form it read, the
\* body it parsed and the calls it made, in order.
Step(i, op, form, data, effects) ==
    [id |-> i, op |-> op, form |-> form, data |-> data, effects |-> effects]

NoSettled == [id |-> 0, rendered |-> FALSE, questions |-> <<>>]

Init ==
    /\ inv = [i \in Invocations |-> [pc |-> "Idle", ok |-> FALSE]]
    /\ quizContainer = <<>>
    /\ errorNodes = <<>>
    /\ last = Step(0, "load", NoForm, NoBody, <<>>)
    /\ lastSettled = NoSettled

\* The first check of generateQuiz: `!topics.length || !qType || ...`.
MissingField(topics, form) ==
    \/ Len(topics) = 0
    \/ form.q_type = ""
    \/ form.difficulty = ""
    \/ form.num_questions = <<>>

\* The second check: `numQuestions < 1 || numQuestions > 20`.
OutOfRange(form) ==
    \/ LessThan(ToNumber(form.num_questions), 1)
    \/ GreaterThan(ToNumber(form.num_questions), 20)

\* The body handed to JSON.stringify.
RequestBody(topics, form) ==
    [topics |-> topics, type |-> form.q_type, difficulty |-> form.difficulty,
     num_questions |-> JsonNumber(ToNumber(form.num_questions))]

\* The catch block's message.
Failure(message) == "Failed to generate quiz: " \o message

\* generateQuiz writing the placeholder before it validates.
ClickLoadingFirst(i, form) ==
    /\ inv[i].pc = "Idle"
    /\ \A j \in Invocations : j < i => inv[j].pc # "Idle"
    /\ quizContainer' = LoadingHTML
    /\ LET topics == SplitTopics(form.topics)
       IN  IF MissingField(topics, form)
           THEN /\ errorNodes' = DisplayError(errorNodes, "All fields are required!")
                /\ inv' = [inv EXCEPT ![i].pc = "Failed"]
                /\ last' = Step(i, "click", form, NoBody,
                                <<Effect("innerHTML", "Loading quiz..."),
                                  Effect("displayError", "All fields are required!")>>)
           ELSE IF OutOfRange(form)
           THEN /\ errorNodes' =
                       DisplayError(errorNodes, "Please choose between 1 and 20 questions!")
                /\ inv' = [inv EXCEPT ![i].pc = "Failed"]
                /\ last' = Step(i, "click", form, NoBody,
                                <<Effect("innerHTML", "Loading quiz..."),
                                  Effect("displayError",
                                         "Please choose between 1 and 20 questions!")>>)
           ELSE /\ inv' = [inv EXCEPT ![i].pc = "Fetching"]
                /\ last' = Step(i, "click", form, NoBody,
                                <<Effect("innerHTML", "Loading quiz..."),
                                  Effect("fetch", RequestBody(topics, form))>>)
                /\ UNCHANGED errorNodes
    /\ UNCHANGED lastSettled

\* A click on generateBtn: generateQuiz up to its first await.
Click(i, form) ==
    /\ inv[i].pc = "Idle"
    /\ \A j \in Invocations : j < i => inv[j].pc # "Idle"
    /\ LET topics == SplitTopics(form.topics)
       IN  IF MissingField(topics, form)
           THEN /\ errorNodes' = DisplayError(errorNodes, "All fields are required!")
                /\ inv' = [inv EXCEPT ![i].pc = "Failed"]
                /\ last' = Step(i, "click", form, NoBody,
                                <<Effect("displayError", "All fields are required!")>>)
                /\ UNCHANGED quizContainer
           ELSE IF OutOfRange(form)
           THEN /\ errorNodes' =
                       DisplayError(errorNodes, "Please choose between 1 and 20 questions!")
                /\ inv' = [inv EXCEPT ![i].pc = "Failed"]
                /\ last' = Step(i, "click", form, NoBody,
                                <<Effect("displayError",
                                         "Please choose between 1 and 20 questions!")>>)
                /\ UNCHANGED quizContainer
           ELSE /\ quizContainer' = LoadingHTML
                /\ inv' = [inv EXCEPT ![i].pc = "Fetching"]
                /\ last' = Step(i, "click", form, NoBody,
                                <<Effect("innerHTML", "Loading quiz..."),
                                  Effect("fetch", RequestBody(topics, form))>>)
                /\ UNCHANGED errorNodes
    /\ UNCHANGED lastSettled

\* A catch block that also empties the display area.
CatchClearsQuiz(i, op, data, message) ==
    /\ errorNodes' = DisplayError(errorNodes, Failure(message))
    /\ quizContainer' = <<>>
    /\ inv' = [inv EXCEPT ![i].pc = "Failed"]
    /\ last' = Step(i, op, NoForm, data, <<Effect("displayError", Failure(message))>>)
    /\ lastSettled' = [id |-> i, rendered |-> FALSE, questions |-> <<>>]

\* The catch block: displayError with the prefixed message.
Catch(i, op, data, message) ==
    /\ errorNodes' = DisplayError(errorNodes, Failure(message))
    /\ inv' = [inv EXCEPT ![i].pc = "Failed"]
    /\ last' = Step(i, op, NoForm, data, <<Effect("displayError", Failure(message))>>)
    /\ lastSettled' = [id |-> i, rendered |-> FALSE, questions |-> <<>>]
    /\ UNCHANGED quizContainer

\* fetch() resolves with the response's status line and headers.
FetchResolve(i, ok) ==
    /\ inv[i].pc = "Fetching"
    /\ inv' = [inv EXCEPT ![i] = [pc |-> "Parsing", ok |-> ok]]
    /\ last' = Step(i, "fetchResolve", NoForm, NoBody, <<>>)
    /\ UNCHANGED <<quizContainer, errorNodes, lastSettled>>

\* fetch() rejects (the network failed): control passes to the catch block.
FetchReject(i) ==
    /\ inv[i].pc = "Fetching"
    /\ Catch(i, "fetchReject", NoBody, FetchErrorMessage)

\* `data.error ?? "Request failed"`: the field whenever it is present.
HttpErrorMessagePresent(data) ==
    IF data.hasError THEN data.error ELSE "Request failed"

\* `data.error || "Request failed"`
HttpErrorMessage(data) ==
    IF data.hasError /\ data.error # "" THEN data.error ELSE "Request failed"

\* The questions check without its length test.
NoQuestionsFieldOnly(data) == ~data.hasQuestions

\* `!data.questions || data.questions.length === 0`
NoQuestions(data) == ~data.hasQuestions \/ Len(data.questions) = 0

\* response.json() resolves with the parsed body: generateQuiz to its end.
JsonResolve(i, data) ==
    /\ inv[i].pc = "Parsing"
    /\ IF ~inv[i].ok
       THEN Catch(i, "jsonResolve", data, HttpErrorMessage(data))
       ELSE IF NoQuestions(data)
       THEN Catch(i, "jsonResolve", data, "No questions generated")
       ELSE /\ quizContainer' = DisplayQuiz(data.questions)
            /\ inv' = [inv EXCEPT ![i].pc = "Rendered"]
            /\ last' = Step(i, "jsonResolve", NoForm, data,
                            <<Effect("displayQuiz", data.questions)>>)
            /\ lastSettled' = [id |-> i, rendered |-> TRUE, questions |-> data.questions]
            /\ UNCHANGED errorNodes

\* response.json() rejects (the body is not JSON).
JsonReject(i) ==
    /\ inv[i].pc = "Parsing"
    /\ Catch(i, "jsonReject", NoBody, JsonErrorMessage)

Next ==
    \/ \E i \in Invocations, form \in Forms : Click(i, form)
    \/ \E i \in Invocations, ok \in BOOLEAN : FetchResolve(i, ok)
    \/ \E i \in Invocations : FetchReject(i)
    \/ \E i \in Invocations, data \in Bodies : JsonResolve(i, data)
    \/ \E i \in Invocations : JsonReject(i)

Spec == Init /\ [][Next]_vars
\* The network settles every request: each pending promise of an activation is
\* eventually resolved or rejected.
Settle(i) ==
    \/ \E ok \in BOOLEAN : FetchResolve(i, ok)
    \/ FetchReject(i)
    \/ \E data \in Bodies : JsonResolve(i, data)
    \/ JsonReject(i)

FairSpec == Spec /\ \A i \in Invocations : WF_vars(Settle(i))

-----------------------------------------------------------------------------
(* Properties.                                                              *)

Called(fn) == \E k \in DOMAIN last.effects : last.effects[k].fn = fn

IsErrorCall(e) == e.fn = "displayError"
ErrorCalls(step) == SelectSeq(step.effects, IsErrorCall)

\* The step called displayError once, with msg, called nothing else, and the
\* notice shows msg.
ShowsOnly(msg) ==
    /\ Len(last.effects) = 1
    /\ last.effects[1].fn = "displayError"
    /\ last.effects[1].arg = msg
    /\ errorNodes # <<>>
    /\ errorNodes[1] = msg

SettleOps == {"fetchReject", "jsonResolve", "jsonReject"}
InFlight(i) == inv[i].pc \in {"Fetching", "Parsing"}
Terminal(i) == inv[i].pc \in {"Failed", "Rendered"}
AllSettled == \A i \in Invocations : ~InFlight(i)

\* A topics value with no non-empty segment: nothing but commas and spaces.
OnlySeparators(value) == \A k \in 1..Len(value) : value[k] \in {",", " "}

SomeFieldEmpty(form) ==
    \/ OnlySeparators(form.topics)
    \/ form.q_type = ""
    \/ form.difficulty = ""
    \/ form.num_questions = <<>>

\* The value is a number between 1 and 20.
ValidCount(value) ==
    LET x == ToNumber(value) IN ~x.nan /\ x.d <= x.n /\ x.n <= 20 * x.d

\* One block per question, labelled from Q1, showing what the code shows.
ExpectedQuiz(questions) ==
    [i \in 1..Len(questions) |-> QuestionBlock(i, QuestionText(questions[i]))]

IsQuiz(html) == html # <<>> /\ html[1].tag = "div.question"

\* C1: a click on a form with an empty field (a topics value with no non-empty
\* segment included) shows "All fields are required!" and sends no request.
C1_EmptyFieldRejected ==
    (last.op = "click" /\ SomeFieldEmpty(last.form))
        => ShowsOnly("All fields are required!") /\ ~Called("fetch")

\* C2: with no field empty, a click sends the request when num_questions is a
\* number in 1..20 and otherwise shows the range message and sends nothing.
C2_NumQuestionsChecked ==
    (last.op = "click" /\ ~SomeFieldEmpty(last.form))
        => IF ValidCount(last.form.num_questions)
           THEN Called("fetch") /\ ~Called("displayError")
           ELSE ShowsOnly("Please choose between 1 and 20 questions!") /\ ~Called("fetch")

\* C3: once displayError has been called there is exactly one errorContainer
\* element, it stays, and its text is the message of the latest call.
C3_SingleErrorNotice ==
    /\ []((\E i \in Invocations : inv[i].pc = "Failed") => Len(errorNodes) = 1)
    /\ [](Called("displayError")
            => errorNodes = <<ErrorCalls(last)[Len(ErrorCalls(last))].arg>>)
    /\ [][errorNodes # <<>>
            => /\ Len(errorNodes') = 1
               /\ ErrorCalls(last') = <<>> => errorNodes' = errorNodes]_vars

\* Two activations have failed, the second one last, and the notice shows
\* the second one's message.
C3_Witness ==
    /\ inv[1].pc = "Failed"
    /\ inv[2].pc = "Failed"
    /\ last.id = 2
    /\ last.op = "jsonResolve"
    /\ errorNodes = <<"Failed to generate quiz: backend down">>

\* C4 as stated: every response with a failure status shows the body's error
\* field when the body has one and "Request failed" when it has none.
C4_ErrorFieldIfPresent ==
    (last.op \in {"jsonResolve", "jsonReject"} /\ ~inv[last.id].ok)
        => /\ ~Called("displayQuiz")
           /\ ShowsOnly("Failed to generate quiz: " \o
                  (IF last.data.hasError THEN last.data.error ELSE "Request failed"))

\* C4 amended: a failure status whose body parses shows the error field when it
\* is present and not empty, else "Request failed"; a body that does not parse
\* shows the parser's message.
C4_ErrorFieldIfNonEmpty ==
    (last.op \in {"jsonResolve", "jsonReject"} /\ ~inv[last.id].ok)
        => /\ ~Called("displayQuiz")
           /\ ShowsOnly("Failed to generate quiz: " \o
                  (IF last.op = "jsonReject" THEN JsonErrorMessage
                   ELSE IF last.data.hasError /\ last.data.error # ""
                        THEN last.data.error ELSE "Request failed"))

\* A status 500 with body {"error": "backend down"} has just been handled.
C4_Witness ==
    /\ last.op = "jsonResolve"
    /\ ~inv[last.id].ok
    /\ last.data.hasError
    /\ last.data.error = "backend down"
    /\ errorNodes = <<"Failed to generate quiz: backend down">>

\* C5: a success response without questions shows "No questions generated" and
\* renders nothing; one with questions is rendered and displayError is not called.
C5_QuestionsOrError ==
    (last.op = "jsonResolve" /\ inv[last.id].ok)
        => IF ~last.data.hasQuestions \/ last.data.questions = <<>>
           THEN /\ ~Called("displayQuiz")
                /\ ShowsOnly("Failed to generate quiz: No questions generated")
           ELSE /\ Len(last.effects) = 1
                /\ last.effects[1].fn = "displayQuiz"
                /\ last.effects[1].arg = last.data.questions
                /\ quizContainer = ExpectedQuiz(last.data.questions)
                /\ inv[last.id].pc = "Rendered"

\* A success response {"questions": []} has just been handled.
C5_Witness ==
    /\ last.op = "jsonResolve"
    /\ inv[last.id].ok
    /\ last.data.hasQuestions
    /\ last.data.questions = <<>>
    /\ inv[last.id].pc = "Failed"

\* C6: displayQuiz leaves one block per question, in order, the i-th labelled
\* Qi and showing the text of an object question and the value of a string one.
C6_BlockPerQuestion ==
    Called("displayQuiz")
        => LET questions == last.data.questions
           IN  quizContainer =
                   [i \in 1..Len(questions) |-> QuestionBlock(i, questions[i].text)]

\* C7: every request sent carries the trimmed, non-empty segments of the topics
\* field, the non-empty type and difficulty, and an integer 1..20.
C7_WellFormedRequest ==
    \A k \in DOMAIN last.effects :
        last.effects[k].fn = "fetch"
            => LET body == last.effects[k].arg
               IN  /\ body.topics = SplitTopics(last.form.topics)
                   /\ \A j \in DOMAIN body.topics : body.topics[j] # <<>>
                   /\ body.type = last.form.q_type /\ body.type # ""
                   /\ body.difficulty = last.form.difficulty /\ body.difficulty # ""
                   /\ ~body.num_questions.null
                   /\ body.num_questions.d = 1
                   /\ body.num_questions.n \in 1..20

\* C8 as stated: once nothing is in flight, the display area shows the result
\* of the response settled last; it shows a quiz only if that response was
\* rendered, and then that response's quiz.
C8_LastResponseShown ==
    (AllSettled /\ lastSettled.id # 0)
        => IF lastSettled.rendered
           THEN quizContainer = ExpectedQuiz(lastSettled.questions)
           ELSE ~IsQuiz(quizContainer)

\* C8 amended: once nothing is in flight, a response that settled last and
\* was rendered is what the display area shows; a response that fails writes
\* its message to the notice and leaves the display area as it found it.
C8_LastRenderedShown ==
    /\ []((AllSettled /\ lastSettled.rendered)
            => quizContainer = ExpectedQuiz(lastSettled.questions))
    /\ [][(lastSettled'.id # lastSettled.id /\ ~lastSettled'.rendered)
            => /\ quizContainer' = quizContainer
               /\ errorNodes' = <<ErrorCalls(last')[1].arg>>]_vars

\* The second activation was started while the first was in flight, the first
\* response settled last, and its quiz is shown.
C8_Witness ==
    /\ inv[1].pc = "Rendered"
    /\ inv[2].pc = "Rendered"
    /\ lastSettled.id = 1
    /\ lastSettled.questions = <<StringQuestion("Q1 text")>>
    /\ quizContainer = <<QuestionBlock(1, "Q1 text")>>

Transitions ==
    { <<"Idle", "Failed">>, <<"Idle", "Fetching">>, <<"Fetching", "Parsing">>,
      <<"Fetching", "Failed">>, <<"Parsing", "Failed">>, <<"Parsing", "Rendered">> }

\* C9: an activation moves Idle -> (Failed | Fetching) -> (Failed | Rendered);
\* the placeholder is written by the click, after validation and right before
\* the one request; a request that is in flight ends in Failed or Rendered.
C9_LinearFlow ==
    /\ [][\A i \in Invocations :
            inv'[i].pc # inv[i].pc => <<inv[i].pc, inv'[i].pc>> \in Transitions]_vars
    /\ [](Called("innerHTML") \/ Called("fetch")
            => /\ last.op = "click"
               /\ Len(last.effects) = 2
               /\ last.effects[1].fn = "innerHTML"
               /\ last.effects[2].fn = "fetch"
               /\ ~MissingField(SplitTopics(last.form.topics), last.form)
               /\ ~OutOfRange(last.form)
               /\ inv[last.id].pc = "Fetching")
    /\ [](last.op \in SettleOps
            => \/ inv[last.id].pc = "Failed" /\ Len(ErrorCalls(last)) = 1
                    /\ ~Called("displayQuiz")
               \/ inv[last.id].pc = "Rendered" /\ ErrorCalls(last) = <<>>
                    /\ Called("displayQuiz"))
    /\ \A i \in Invocations : InFlight(i) ~> Terminal(i)

\* An activation that passed validation and was answered has rendered.
C9_Witness ==
    /\ inv[1].pc = "Rendered"
    /\ last.id = 1
    /\ last.op = "jsonResolve"
    /\ IsQuiz(quizContainer)

\* C10 as stated: an activation that fails after validation leaves the
\* display area showing the placeholder.
C10_FailureLeavesPlaceholder ==
    (last.op \in SettleOps /\ inv[last.id].pc = "Failed") => quizContainer = LoadingHTML

\* C10 amended: a step that calls displayError leaves the display area as it
\* was, a step that calls displayQuiz leaves the notice as it was, and a failure
\* after validation leaves the placeholder unless another activation has rendered.
C10_IndependentSurfaces ==
    /\ [][/\ ErrorCalls(last') # <<>> => quizContainer' = quizContainer
          /\ (\E k \in DOMAIN last'.effects : last'.effects[k].fn = "displayQuiz")
                => errorNodes' = errorNodes]_vars
    /\ []((/\ last.op \in SettleOps
           /\ inv[last.id].pc = "Failed"
           /\ \A j \in Invocations : inv[j].pc # "Rendered")
            => quizContainer = LoadingHTML)

\* The first activation failed validation, the second one rendered, and the
\* first one's message is still shown beside the quiz.
C10_Witness ==
    /\ inv[1].pc = "Failed"
    /\ inv[2].pc = "Rendered"
    /\ last.id = 2
    /\ IsQuiz(quizContainer)
    /\ errorNodes = <<"All fields are required!">>

====
